---- MODULE Spec2Model ----
(***************************************************************************)
(* Graph construction of segmed/models/multiresunet.py.                    *)
(*                                                                         *)
(* The module builds a Keras functional graph.  The state is the graph     *)
(* under construction (the list of layers created so far, each with the    *)
(* tensors it consumes and the static shape of the tensor it produces),    *)
(* the local variables of MultiResUnet, and the position in its body.      *)
(* A tensor is identified with the index of the layer that produced it.    *)
(* The layer calls follow the static shape rules of tensorflow.keras       *)
(* (channels_last), which is what raises during construction.              *)
(***************************************************************************)
EXTENDS Integers, Sequences, FiniteSets, TLC

VARIABLES prog, args, G, env, pc, status, result

vars == <<prog, args, G, env, pc, status, result>>

-----------------------------------------------------------------------------
(* Bounds of the explored inputs.                                          *)

\* input_size heights and widths explored for MultiResUnet: 0 .. MaxDim
MaxDim == 33
\* input channel counts explored: 1 .. MaxChannels
MaxChannels == 2
\* heights and widths of the tensor handed to a helper called on its own
MaxSide == 2
\* filter counts explored for conv2d and ResPath called on their own
MaxFilters == 2
\* ResPath lengths explored: None and -MaxLength .. MaxLength
MaxLength == 4
\* further u_val values explored for MultiResBlock: 6 .. MaxUVal
MaxUVal == 8
\* further alpha values explored for MultiResBlock: 1.0 .. MaxAlpha (integers)
MaxAlpha == 2

-----------------------------------------------------------------------------
(* Optional[...] arguments: None is the empty tuple, a value v is <<v>>.   *)

None == <<>>
Some(v) == <<v>>

-----------------------------------------------------------------------------
(* Framework layers.  B is the builder state: the layers created so far,   *)
(* the layer that raised (if any, "" otherwise; nothing is created after   *)
(* an exception), the tensor returned by the last call, and the trace of   *)
(* the helper calls that returned.                                         *)

NoLayer ==
  [kind |-> "", inputs |-> <<>>, h |-> 0, w |-> 0, c |-> 0,
   filters |-> 0, ksize |-> <<>>, strides |-> <<>>, padding |-> "",
   use_bias |-> FALSE, scale |-> FALSE, activation |-> ""]

EmptyGraph == [layers |-> <<>>, err |-> "", out |-> 0, calls |-> <<>>]

Emit(B, layer) ==
  [B EXCEPT !.layers = Append(@, layer), !.out = Len(B.layers) + 1]

Raise(B, kind) == [B EXCEPT !.err = kind]

\* K.layers.Input(shape)
Input(B, shape) ==
  IF B.err # "" THEN B
  ELSE Emit(B, [NoLayer EXCEPT !.kind = "InputLayer",
                               !.h = shape[1], !.w = shape[2], !.c = shape[3]])

\* output length of a convolution or pooling window along one dimension
ConvOut(n, k, s, padding) ==
  IF padding = "same" THEN (n + s - 1) \div s ELSE (n - k) \div s + 1

\* K.layers.Conv2D(filters, shape, strides=, padding=, use_bias=)(x)
Conv2D(B, x, filters, shape, strides, padding, use_bias) ==
  IF B.err # "" THEN B
  ELSE LET in == B.layers[x]
       IN IF padding = "valid" /\ (in.h < shape[1] \/ in.w < shape[2])
          THEN Raise(B, "Conv2D")
          ELSE Emit(B, [NoLayer EXCEPT
                 !.kind = "Conv2D", !.inputs = <<x>>,
                 !.h = ConvOut(in.h, shape[1], strides[1], padding),
                 !.w = ConvOut(in.w, shape[2], strides[2], padding),
                 !.c = filters, !.filters = filters, !.ksize = shape,
                 !.strides = strides, !.padding = padding,
                 !.use_bias = use_bias])

\* K.layers.BatchNormalization(scale=)(x)
BatchNormalization(B, x, scale) ==
  IF B.err # "" THEN B
  ELSE LET in == B.layers[x]
       IN Emit(B, [NoLayer EXCEPT
            !.kind = "BatchNormalization", !.inputs = <<x>>,
            !.h = in.h, !.w = in.w, !.c = in.c, !.scale = scale])

\* K.layers.Activation(activation)(x)
Activation(B, x, activation) ==
  IF B.err # "" THEN B
  ELSE LET in == B.layers[x]
       IN Emit(B, [NoLayer EXCEPT
            !.kind = "Activation", !.inputs = <<x>>,
            !.h = in.h, !.w = in.w, !.c = in.c, !.activation = activation])

RECURSIVE SumChannels(_, _)
SumChannels(B, xs) ==
  IF xs = <<>> THEN 0 ELSE B.layers[Head(xs)].c + SumChannels(B, Tail(xs))

\* K.layers.Concatenate()(xs): along the channel axis; every other
\* dimension must agree
Concatenate(B, xs) ==
  IF B.err # "" THEN B
  ELSE LET first == B.layers[xs[1]]
       IN IF \E i \in 1..Len(xs) :
               B.layers[xs[i]].h # first.h \/ B.layers[xs[i]].w # first.w
          THEN Raise(B, "Concatenate")
          ELSE Emit(B, [NoLayer EXCEPT
                 !.kind = "Concatenate", !.inputs = xs,
                 !.h = first.h, !.w = first.w, !.c = SumChannels(B, xs)])

\* one dimension of an element-wise merge: equal, or broadcast from 1
Compatible(i, j) == i = j \/ i = 1 \/ j = 1
Broadcast(i, j) == IF i = 1 THEN j ELSE i

\* K.layers.add([a, b])
Add(B, xs) ==
  IF B.err # "" THEN B
  ELSE LET a == B.layers[xs[1]]
           b == B.layers[xs[2]]
       IN IF ~ (Compatible(a.h, b.h) /\ Compatible(a.w, b.w)
                  /\ Compatible(a.c, b.c))
          THEN Raise(B, "Add")
          ELSE Emit(B, [NoLayer EXCEPT
                 !.kind = "Add", !.inputs = xs,
                 !.h = Broadcast(a.h, b.h), !.w = Broadcast(a.w, b.w),
                 !.c = Broadcast(a.c, b.c)])

MaxPooling2DSame(B, x, pool_size) ==
  IF B.err # "" THEN B
  ELSE LET in == B.layers[x]
       IN Emit(B, [NoLayer EXCEPT
            !.kind = "MaxPooling2D", !.inputs = <<x>>,
            !.h = ConvOut(in.h, pool_size[1], pool_size[1], "same"),
            !.w = ConvOut(in.w, pool_size[2], pool_size[2], "same"),
            !.c = in.c, !.ksize = pool_size, !.strides = pool_size,
            !.padding = "same"])

\* K.layers.MaxPooling2D(pool_size=)(x): strides default to pool_size and
\* padding to "valid"; a window longer than the dimension raises
MaxPooling2D(B, x, pool_size) ==
  IF B.err # "" THEN B
  ELSE LET in == B.layers[x]
       IN IF in.h < pool_size[1] \/ in.w < pool_size[2]
          THEN Raise(B, "MaxPooling2D")
          ELSE Emit(B, [NoLayer EXCEPT
                 !.kind = "MaxPooling2D", !.inputs = <<x>>,
                 !.h = ConvOut(in.h, pool_size[1], pool_size[1], "valid"),
                 !.w = ConvOut(in.w, pool_size[2], pool_size[2], "valid"),
                 !.c = in.c, !.ksize = pool_size, !.strides = pool_size,
                 !.padding = "valid"])

\* K.layers.Conv2DTranspose(filters, shape, strides=, padding="same")(x)
Conv2DTranspose(B, x, filters, shape, strides, padding) ==
  IF B.err # "" THEN B
  ELSE LET in == B.layers[x]
       IN Emit(B, [NoLayer EXCEPT
            !.kind = "Conv2DTranspose", !.inputs = <<x>>,
            !.h = in.h * strides[1], !.w = in.w * strides[2],
            !.c = filters, !.filters = filters, !.ksize = shape,
            !.strides = strides, !.padding = padding, !.use_bias = TRUE])

\* a helper call that returned is appended to the trace
Returned(B0, B, fn, p, x) ==
  IF B.err # "" THEN B
  ELSE [B EXCEPT !.calls = Append(@,
          [fn |-> fn, p |-> p, input |-> x,
           first |-> Len(B0.layers) + 1, last |-> Len(B.layers),
           out |-> B.out])]

-----------------------------------------------------------------------------
(* Sequencing of the statements of a function body: v is computed once and *)
(* handed to the rest of the body.                                         *)

Then(v, Rest(_)) == CHOOSE r \in {Rest(b) : b \in {v}} : TRUE

-----------------------------------------------------------------------------
(* conv2d, lines 5-38.                                                     *)

\* variant of conv2d: the activation layer is always appended
conv2dAlwaysActivation(B, x, filters, shape, padding, strides, activation) ==
  Then(Conv2D(B, x, filters, shape, strides, padding, FALSE), LAMBDA conv :
  Then(BatchNormalization(conv, conv.out, FALSE), LAMBDA norm :
    Activation(norm, norm.out,
               IF activation = None THEN "linear" ELSE activation[1])))

conv2d(B, x, filters, shape, padding, strides, activation) ==
  Then(Conv2D(B, x, filters, shape, strides, padding, FALSE), LAMBDA conv :
  Then(BatchNormalization(conv, conv.out, FALSE), LAMBDA norm :
    IF activation = None
    THEN norm
    ELSE Activation(norm, norm.out, activation[1])))

-----------------------------------------------------------------------------
(* MultiResBlock, lines 41-86.                                             *)
(*                                                                         *)
(* alpha is carried in hundredths (1.67 is 167), so weight = u_val * alpha *)
(* is in hundredths too and int(weight * 0.167) is the integer quotient of *)
(* weight * 167 by 100000.  For the u_val and alpha explored the exact     *)
(* products are never within 1/1000 of an integer, so the floating-point   *)
(* products of the code truncate to the same integers.                     *)

DefaultAlpha == 167

\* line 57
Weight(u_val, alpha) == u_val * alpha

\* int(weight * t / 1000), weight in hundredths
IntTimes(weight, t) == (weight * t) \div 100000

\* variant of ShortcutFilters: int(weight)
ShortcutFiltersOfWeight(weight) == weight \div 100

\* line 61
ShortcutFilters(weight) ==
  IntTimes(weight, 167) + IntTimes(weight, 333) + IntTimes(weight, 500)

\* variant of BranchPadding
BranchPaddingValid == "valid"

\* padding of the three 3x3 maps, lines 68, 72, 76
BranchPadding == "same"

MultiResBlock(B, u_val, input, alpha) ==
  LET weight == Weight(u_val, alpha)
  IN
  Then(conv2d(B, input, ShortcutFilters(weight), <<1, 1>>, "same",
              <<1, 1>>, None), LAMBDA dimension_conservation :
  Then(conv2d(dimension_conservation, input, IntTimes(weight, 167),
              <<3, 3>>, BranchPadding, <<1, 1>>, Some("relu")),
       LAMBDA conv3x3 :
  Then(conv2d(conv3x3, conv3x3.out, IntTimes(weight, 333),
              <<3, 3>>, BranchPadding, <<1, 1>>, Some("relu")),
       LAMBDA conv5x5 :
  Then(conv2d(conv5x5, conv5x5.out, IntTimes(weight, 500),
              <<3, 3>>, BranchPadding, <<1, 1>>, Some("relu")),
       LAMBDA conv7x7 :
  Then(Concatenate(conv7x7, <<conv3x3.out, conv5x5.out, conv7x7.out>>),
       LAMBDA cat :
  Then(BatchNormalization(cat, cat.out, TRUE), LAMBDA norm :
  Then(Add(norm, <<dimension_conservation.out, norm.out>>), LAMBDA sum :
  Then(Activation(sum, sum.out, "relu"), LAMBDA act :
  Then(BatchNormalization(act, act.out, TRUE), LAMBDA out :
    Returned(B, out, "MultiResBlock", u_val, input))))))))))

-----------------------------------------------------------------------------
(* ResPath, lines 89-129.                                                  *)

\* one residual unit: lines 107-113, and the loop body, lines 118-127
ResUnit(B, filters, x) ==
  Then(conv2d(B, x, filters, <<1, 1>>, "same", <<1, 1>>, None),
       LAMBDA residual :
  Then(conv2d(residual, x, filters, <<3, 3>>, "same", <<1, 1>>,
              Some("relu")), LAMBDA out :
  Then(Add(out, <<residual.out, out.out>>), LAMBDA sum :
  Then(Activation(sum, sum.out, "relu"), LAMBDA act :
    BatchNormalization(act, act.out, TRUE)))))

\* len(range(n))
RangeLen(n) == IF n > 0 THEN n ELSE 0

\* variant of ExtraUnits: range(length)
ExtraUnitsOffByOne(length) ==
  IF length = None THEN 0 ELSE RangeLen(length[1])

\* iterations of the loop of lines 115-116
ExtraUnits(length) ==
  IF length = None THEN 0 ELSE RangeLen(length[1] - 1)

\* n iterations of lines 116-127, each on the output of the one before
RECURSIVE ResPathLoop(_, _, _)
ResPathLoop(B, filters, n) ==
  IF n = 0 THEN B
  ELSE Then(ResUnit(B, filters, B.out),
            LAMBDA b : ResPathLoop(b, filters, n - 1))

\* variant of ResPath: every unit is built by the loop, range(length) times
ResPathLoopOnly(B, filters, input, length) ==
  LET n == IF length = None THEN 1 ELSE RangeLen(length[1])
  IN Then(IF n = 0 THEN [B EXCEPT !.out = input]
          ELSE ResUnit(B, filters, input), LAMBDA first :
     Then(ResPathLoop(first, filters, RangeLen(n - 1)), LAMBDA out :
       Returned(B, out, "ResPath", filters, input)))

ResPath(B, filters, input, length) ==
  Then(ResUnit(B, filters, input), LAMBDA first :
  Then(ResPathLoop(first, filters, ExtraUnits(length)), LAMBDA out :
    Returned(B, out, "ResPath", filters, input)))

-----------------------------------------------------------------------------
(* MultiResUnet, lines 132-198: its body, one entry per statement.  dst is *)
(* the local variable assigned, src the local variables read, p the first  *)
(* positional argument of the call (u_val, filters, or the pool size) and  *)
(* len the length handed to ResPath.                                       *)

Program ==
  <<
    [line |-> 150, dst |-> "inputs", op |-> "Input", p |-> 0,
     len |-> None, src |-> <<"input_size">>],
    [line |-> 152, dst |-> "mresblock_1", op |-> "MultiResBlock", p |-> 32,
     len |-> None, src |-> <<"inputs">>],
    [line |-> 153, dst |-> "pool_1", op |-> "MaxPooling2D", p |-> 2,
     len |-> None, src |-> <<"mresblock_1">>],
    [line |-> 154, dst |-> "mresblock_1", op |-> "ResPath", p |-> 32,
     len |-> Some(4), src |-> <<"mresblock_1">>],
    [line |-> 156, dst |-> "mresblock_2", op |-> "MultiResBlock", p |-> 64,
     len |-> None, src |-> <<"pool_1">>],
    [line |-> 157, dst |-> "pool_2", op |-> "MaxPooling2D", p |-> 2,
     len |-> None, src |-> <<"mresblock_2">>],
    [line |-> 158, dst |-> "mresblock_2", op |-> "ResPath", p |-> 64,
     len |-> Some(3), src |-> <<"mresblock_2">>],
    [line |-> 160, dst |-> "mresblock_3", op |-> "MultiResBlock", p |-> 128,
     len |-> None, src |-> <<"pool_2">>],
    [line |-> 161, dst |-> "pool_3", op |-> "MaxPooling2D", p |-> 2,
     len |-> None, src |-> <<"mresblock_3">>],
    [line |-> 162, dst |-> "mresblock_3", op |-> "ResPath", p |-> 128,
     len |-> Some(2), src |-> <<"mresblock_3">>],
    [line |-> 164, dst |-> "mresblock_4", op |-> "MultiResBlock", p |-> 256,
     len |-> None, src |-> <<"pool_3">>],
    [line |-> 165, dst |-> "pool_4", op |-> "MaxPooling2D", p |-> 2,
     len |-> None, src |-> <<"mresblock_4">>],
    [line |-> 166, dst |-> "mresblock_4", op |-> "ResPath", p |-> 256,
     len |-> None, src |-> <<"mresblock_4">>],
    [line |-> 168, dst |-> "mresblock5", op |-> "MultiResBlock", p |-> 512,
     len |-> None, src |-> <<"pool_4">>],
    [line |-> 170, dst |-> "up_6", op |-> "Conv2DTranspose", p |-> 256,
     len |-> None, src |-> <<"mresblock5">>],
    [line |-> 173, dst |-> "up_6", op |-> "Concatenate", p |-> 0,
     len |-> None, src |-> <<"up_6", "mresblock_4">>],
    [line |-> 174, dst |-> "mresblock_6", op |-> "MultiResBlock", p |-> 256,
     len |-> None, src |-> <<"up_6">>],
    [line |-> 176, dst |-> "up_7", op |-> "Conv2DTranspose", p |-> 128,
     len |-> None, src |-> <<"mresblock_6">>],
    [line |-> 179, dst |-> "up_7", op |-> "Concatenate", p |-> 0,
     len |-> None, src |-> <<"up_7", "mresblock_3">>],
    [line |-> 180, dst |-> "mresblock7", op |-> "MultiResBlock", p |-> 128,
     len |-> None, src |-> <<"up_7">>],
    [line |-> 182, dst |-> "up_8", op |-> "Conv2DTranspose", p |-> 64,
     len |-> None, src |-> <<"mresblock7">>],
    [line |-> 185, dst |-> "up_8", op |-> "Concatenate", p |-> 0,
     len |-> None, src |-> <<"up_8", "mresblock_2">>],
    [line |-> 186, dst |-> "mresblock8", op |-> "MultiResBlock", p |-> 64,
     len |-> None, src |-> <<"up_8">>],
    [line |-> 188, dst |-> "up_9", op |-> "Conv2DTranspose", p |-> 32,
     len |-> None, src |-> <<"mresblock8">>],
    [line |-> 191, dst |-> "up_9", op |-> "Concatenate", p |-> 0,
     len |-> None, src |-> <<"up_9", "mresblock_1">>],
    [line |-> 192, dst |-> "mresblock9", op |-> "MultiResBlock", p |-> 32,
     len |-> None, src |-> <<"up_9">>],
    [line |-> 194, dst |-> "conv_10", op |-> "conv2d", p |-> 1,
     len |-> None, src |-> <<"mresblock9">>],
    [line |-> 196, dst |-> "model", op |-> "Model", p |-> 0,
     len |-> None, src |-> <<"inputs", "conv_10">>]
  >>

Locals == {Program[i].dst : i \in 1..Len(Program)}

StmtResPathFirst(i) ==
  IF Program[i].op = "MaxPooling2D" THEN Program[i + 1]
  ELSE IF Program[i].op = "ResPath" THEN Program[i - 1]
  ELSE Program[i]

StmtDefaultLength(i) == [Program[i] EXCEPT !.len = None]

StmtUpFiltersOfBlock(i) ==
  IF Program[i].op = "Conv2DTranspose"
  THEN [Program[i] EXCEPT !.p = Program[i - 1].p]
  ELSE Program[i]

\* the statement at position i
Stmt(i) == Program[i]

\* the layers created by the statement s with the locals bound as in e
Exec(B, s, e, input_size) ==
  CASE s.op = "Input" -> Input(B, input_size)
    [] s.op = "MultiResBlock" ->
         MultiResBlock(B, s.p, e[s.src[1]], DefaultAlpha)
    [] s.op = "MaxPooling2D" -> MaxPooling2D(B, e[s.src[1]], <<s.p, s.p>>)
    [] s.op = "ResPath" -> ResPath(B, s.p, e[s.src[1]], s.len)
    [] s.op = "Conv2DTranspose" ->
         Conv2DTranspose(B, e[s.src[1]], s.p, <<2, 2>>, <<2, 2>>, "same")
    [] s.op = "Concatenate" -> Concatenate(B, <<e[s.src[1]], e[s.src[2]]>>)
    [] s.op = "conv2d" ->
         conv2d(B, e[s.src[1]], s.p, <<1, 1>>, "same", <<1, 1>>,
                Some("sigmoid"))
    [] OTHER -> B

NoResult == [kind |-> "None", inputs |-> <<>>, outputs |-> <<>>]

-----------------------------------------------------------------------------
(* Inputs.                                                                 *)

Dims == 0 .. MaxDim
Channels == 1 .. MaxChannels
Sides == 1 .. MaxSide

\* the u_val that MultiResUnet hands to MultiResBlock, lines 152-192
UsedUVals == {32, 64, 128, 256, 512}
BlockUVals == UsedUVals \cup (6 .. MaxUVal)
BlockAlphas == {DefaultAlpha} \cup {100 * k : k \in 1 .. MaxAlpha}
Lengths == {None} \cup {Some(n) : n \in (0 - MaxLength) .. MaxLength}
Activations == {None, Some("relu"), Some("sigmoid")}

NoArgs ==
  [input_size |-> <<0, 0, 0>>, filters |-> 0, shape |-> <<>>,
   padding |-> "", strides |-> <<>>, activation |-> None,
   u_val |-> 0, alpha |-> 0, length |-> None]

UnetArgs ==
  {[NoArgs EXCEPT !.input_size = <<h, w, c>>] :
     h \in Dims, w \in Dims, c \in Channels}

HelperInputs == {<<h, w, c>> : h \in Sides, w \in Sides, c \in Channels}

Conv2dArgs ==
  {[NoArgs EXCEPT !.input_size = i, !.filters = f, !.shape = <<k, k>>,
                  !.padding = pd, !.strides = <<st, st>>, !.activation = a] :
     i \in HelperInputs, f \in 1 .. MaxFilters, k \in {1, 3},
     pd \in {"same", "valid"}, st \in {1, 2}, a \in Activations}

BlockArgs ==
  {[NoArgs EXCEPT !.input_size = i, !.u_val = u, !.alpha = a] :
     i \in HelperInputs, u \in BlockUVals, a \in BlockAlphas}

ResPathArgs ==
  {[NoArgs EXCEPT !.input_size = i, !.filters = f, !.length = l] :
     i \in HelperInputs, f \in 1 .. MaxFilters, l \in Lengths}

-----------------------------------------------------------------------------
(* The state machine.  prog is the function of the module that is called   *)
(* and args its arguments.  A helper called on its own is given the output *)
(* of an Input layer.                                                      *)

Init ==
  /\ prog \in {"MultiResUnet", "conv2d", "MultiResBlock", "ResPath"}
  /\ args \in CASE prog = "MultiResUnet" -> UnetArgs
                [] prog = "conv2d" -> Conv2dArgs
                [] prog = "MultiResBlock" -> BlockArgs
                [] prog = "ResPath" -> ResPathArgs
  /\ G = IF prog = "MultiResUnet" THEN EmptyGraph
         ELSE Input(EmptyGraph, args.input_size)
  /\ env = [v \in Locals |-> 0]
  /\ pc = 1
  /\ status = "running"
  /\ result = NoResult

\* one statement of MultiResUnet: its call creates layers and its result is
\* bound to the local variable, or the call raises and MultiResUnet ends
Step ==
  /\ prog = "MultiResUnet"
  /\ status = "running"
  /\ \E s \in {Stmt(pc)} : \E B \in {Exec(G, s, env, args.input_size)} :
        /\ G' = B
        /\ IF B.err # ""
           THEN /\ status' = "raised"
                /\ UNCHANGED <<env, pc, result>>
           ELSE /\ env' = [env EXCEPT ![s.dst] = B.out]
                /\ pc' = pc + 1
                /\ UNCHANGED <<status, result>>
  /\ UNCHANGED <<prog, args>>

StepInput ==
  /\ Stmt(pc).op = "Input"
  /\ Step

StepMultiResBlock ==
  /\ Stmt(pc).op = "MultiResBlock"
  /\ Step

StepMaxPooling2D ==
  /\ Stmt(pc).op = "MaxPooling2D"
  /\ Step

StepResPath ==
  /\ Stmt(pc).op = "ResPath"
  /\ Step

StepConv2DTranspose ==
  /\ Stmt(pc).op = "Conv2DTranspose"
  /\ Step

StepConcatenate ==
  /\ Stmt(pc).op = "Concatenate"
  /\ Step

StepConv2d ==
  /\ Stmt(pc).op = "conv2d"
  /\ Step

\* lines 196-198: K.Model(inputs=[inputs], outputs=[conv_10]) is returned
StepModel ==
  /\ prog = "MultiResUnet"
  /\ status = "running"
  /\ Stmt(pc).op = "Model"
  /\ result' = [kind |-> "Model", inputs |-> <<env[Stmt(pc).src[1]]>>,
                outputs |-> <<env[Stmt(pc).src[2]]>>]
  /\ status' = "returned"
  /\ UNCHANGED <<prog, args, G, env, pc>>

\* a helper called on its own returns a tensor or raises
Finish(built) == \E B \in {built} :
  /\ G' = B
  /\ IF B.err # ""
     THEN status' = "raised" /\ result' = NoResult
     ELSE /\ status' = "returned"
          /\ result' = [kind |-> "Tensor", inputs |-> <<1>>,
                        outputs |-> <<B.out>>]
  /\ UNCHANGED <<prog, args, env, pc>>

CallConv2d ==
  /\ prog = "conv2d"
  /\ status = "running"
  /\ Finish(conv2d(G, G.out, args.filters, args.shape, args.padding,
                   args.strides, args.activation))

CallMultiResBlock ==
  /\ prog = "MultiResBlock"
  /\ status = "running"
  /\ Finish(MultiResBlock(G, args.u_val, G.out, args.alpha))

CallResPath ==
  /\ prog = "ResPath"
  /\ status = "running"
  /\ Finish(ResPath(G, args.filters, G.out, args.length))

Next ==
  \/ StepInput
  \/ StepMultiResBlock
  \/ StepMaxPooling2D
  \/ StepResPath
  \/ StepConv2DTranspose
  \/ StepConcatenate
  \/ StepConv2d
  \/ StepModel
  \/ CallConv2d
  \/ CallMultiResBlock
  \/ CallResPath

Spec == Init /\ [][Next]_vars

-----------------------------------------------------------------------------
(* The built graph.                                                        *)

Layers == G.layers

\* S and, of the layers lo .. hi, those that a layer of S depends on (a
\* layer is created after the layers it consumes, so the higher half of
\* the range is settled first)
RECURSIVE Ancestors(_, _, _)
Ancestors(lo, hi, S) ==
  IF lo > hi THEN S
  ELSE IF lo = hi
  THEN IF lo \in S
       THEN S \cup {Layers[lo].inputs[i] : i \in 1..Len(Layers[lo].inputs)}
       ELSE S
  ELSE Then(Ancestors((lo + hi) \div 2 + 1, hi, S),
            LAMBDA T : Ancestors(lo, (lo + hi) \div 2, T))

\* model.layers of the K.Model of line 196: the layers its outputs depend on
ModelLayers ==
  Ancestors(1, Len(Layers),
            {result.outputs[i] : i \in 1..Len(result.outputs)})

\* the indices of the layers of one kind, in creation order
OfKind(kind) ==
  SelectSeq([i \in 1..Len(Layers) |-> i], LAMBDA i : Layers[i].kind = kind)

\* the calls of one helper that returned, in call order
CallsOf(fn) == SelectSeq(G.calls, LAMBDA c : c.fn = fn)

\* the layers that consume tensor x
Consumers(x) ==
  {j \in 1..Len(Layers) :
     \E i \in 1..Len(Layers[j].inputs) : Layers[j].inputs[i] = x}

\* the Concatenate layers of MultiResUnet itself, lines 173, 179, 185, 191
DecoderConcats ==
  SelectSeq(OfKind("Concatenate"),
            LAMBDA j : Layers[Layers[j].inputs[1]].kind = "Conv2DTranspose")

SameShape(a, b) == a.h = b.h /\ a.w = b.w /\ a.c = b.c

PositiveMultipleOf16(n) == n > 0 /\ n % 16 = 0

Finished == status # "running"
UnetFinished == prog = "MultiResUnet" /\ Finished
UnetBuilt == prog = "MultiResUnet" /\ status = "returned"

\* layers base+1 .. base+8 are one residual unit of ResPath on tensor x
IsResUnit(base, x, filters) ==
  /\ Len(Layers) >= base + 8
  /\ Layers[base + 1].kind = "Conv2D"
  /\ Layers[base + 1].inputs = <<x>>
  /\ Layers[base + 1].ksize = <<1, 1>>
  /\ Layers[base + 1].filters = filters
  /\ Layers[base + 2].kind = "BatchNormalization"
  /\ Layers[base + 2].inputs = <<base + 1>>
  /\ Layers[base + 3].kind = "Conv2D"
  /\ Layers[base + 3].inputs = <<x>>
  /\ Layers[base + 3].ksize = <<3, 3>>
  /\ Layers[base + 3].filters = filters
  /\ Layers[base + 4].kind = "BatchNormalization"
  /\ Layers[base + 4].inputs = <<base + 3>>
  /\ Layers[base + 5].kind = "Activation"
  /\ Layers[base + 5].activation = "relu"
  /\ Layers[base + 5].inputs = <<base + 4>>
  /\ Layers[base + 6].kind = "Add"
  /\ Layers[base + 6].inputs = <<base + 2, base + 5>>
  /\ Layers[base + 7].kind = "Activation"
  /\ Layers[base + 7].activation = "relu"
  /\ Layers[base + 7].inputs = <<base + 6>>
  /\ Layers[base + 8].kind = "BatchNormalization"
  /\ Layers[base + 8].inputs = <<base + 7>>

-----------------------------------------------------------------------------
(* C1: for every input_size (H, W, C) with H and W positive multiples of   *)
(* 16, MultiResUnet returns a model with a single output of shape          *)
(* (H, W, 1); exactly four poolings each halve height and width, exactly   *)
(* four transposed convolutions each double them, and every other layer    *)
(* keeps the height and width of its inputs.                               *)

C1_OutputShape ==
  (UnetFinished /\ PositiveMultipleOf16(args.input_size[1])
                /\ PositiveMultipleOf16(args.input_size[2]))
  => /\ status = "returned"
     /\ result.kind = "Model"
     /\ Len(result.outputs) = 1
     /\ Layers[result.outputs[1]].h = args.input_size[1]
     /\ Layers[result.outputs[1]].w = args.input_size[2]
     /\ Layers[result.outputs[1]].c = 1
     /\ Len(OfKind("MaxPooling2D")) = 4
     /\ Len(OfKind("Conv2DTranspose")) = 4
     /\ \A j \in 1..Len(Layers) : \A i \in 1..Len(Layers[j].inputs) :
          LET in == Layers[Layers[j].inputs[i]]
              out == Layers[j]
          IN CASE out.kind = "MaxPooling2D" ->
                    2 * out.h = in.h /\ 2 * out.w = in.w
               [] out.kind = "Conv2DTranspose" ->
                    out.h = 2 * in.h /\ out.w = 2 * in.w
               [] OTHER -> out.h = in.h /\ out.w = in.w

C1_Witness ==
  /\ UnetBuilt
  /\ args.input_size[1] = 32
  /\ args.input_size[2] = 16
  /\ Layers[result.outputs[1]].h = 32

(* C2: every model MultiResUnet returns has exactly 240 layers: 1 input    *)
(* layer, 9 MultiResBlocks of 16 layers, 10 ResPath units (4+3+2+1) of 8   *)
(* layers, 4 poolings, 4 transposed convolutions, 4 decoder concatenations *)
(* and the 3 layers of the final conv2d.                                   *)

C2_LayerCount ==
  UnetBuilt
  => /\ Cardinality(ModelLayers) = 240
     /\ Len(Layers) = 240
     /\ Len(OfKind("InputLayer")) = 1
     /\ Len(CallsOf("MultiResBlock")) = 9
     /\ \A k \in 1..9 :
          LET c == CallsOf("MultiResBlock")[k] IN c.last - c.first + 1 = 16
     /\ Len(CallsOf("ResPath")) = 4
     /\ \A k \in 1..4 :
          LET c == CallsOf("ResPath")[k]
          IN /\ c.last - c.first + 1 = 8 * (5 - k)
             /\ \A u \in 0..(4 - k) :
                  IsResUnit(c.first - 1 + 8 * u,
                            IF u = 0 THEN c.input ELSE c.first - 1 + 8 * u,
                            c.p)
     /\ Len(OfKind("MaxPooling2D")) = 4
     /\ Len(OfKind("Conv2DTranspose")) = 4
     /\ Len(DecoderConcats) = 4
     /\ Layers[238].kind = "Conv2D"
     /\ Layers[239].kind = "BatchNormalization"
     /\ Layers[240].kind = "Activation"
     /\ Layers[240].activation = "sigmoid"
     /\ result.outputs = <<240>>

C2_Witness ==
  /\ UnetBuilt
  /\ args.input_size[1] = 16
  /\ args.input_size[2] = 32
  /\ Len(Layers) = 240

(* C3: for every input_size whose height or width is not a positive       *)
(* multiple of 16, MultiResUnet returns no model: layers are built one     *)
(* after the other until a framework layer raises, which is either a       *)
(* decoder Concatenate whose two operands differ in height or width or a   *)
(* pooling whose result would have a zero-sized dimension.                 *)

C4_Units(length) == IF length = None THEN 1 ELSE length[1]

C4_ResPathLength ==
  (prog = "ResPath" /\ Finished
     /\ (args.length = None \/ args.length[1] >= 1))
  => /\ status = "returned"
     /\ Len(Layers) = 1 + 8 * C4_Units(args.length)
     /\ \A u \in 0..(C4_Units(args.length) - 1) :
          IsResUnit(1 + 8 * u, IF u = 0 THEN 1 ELSE 1 + 8 * u, args.filters)
     /\ result.outputs = <<1 + 8 * C4_Units(args.length)>>

C4_Witness ==
  /\ prog = "ResPath"
  /\ status = "returned"
  /\ args.length = Some(3)
  /\ Len(Layers) = 25

(* C5: for every u_val that MultiResUnet hands to MultiResBlock (32, 64,   *)
(* 128, 256, 512), with alpha = 1.67 and W = u_val * alpha, the three 3x3  *)
(* convolutions of the block have floor(W / 6), floor(W / 3) and           *)
(* floor(W / 2) filters.                                                   *)

C5_AlphaOfCalls == IF prog = "MultiResBlock" THEN args.alpha ELSE DefaultAlpha

C5_BranchFilters ==
  \A k \in 1..Len(G.calls) :
    LET c == G.calls[k]
        W == Weight(c.p, DefaultAlpha)
    IN (c.fn = "MultiResBlock" /\ c.p \in UsedUVals
          /\ C5_AlphaOfCalls = DefaultAlpha)
       => /\ Layers[c.first + 2].filters = W \div 600
          /\ Layers[c.first + 5].filters = W \div 300
          /\ Layers[c.first + 8].filters = W \div 200

(* C6: no Add layer ever raises and the two operands of every Add layer    *)
(* built have the same height, width and channel count; in a MultiResBlock *)
(* the 1x1 shortcut has as many filters as the concatenation of the three  *)
(* 3x3 maps has channels, in a ResPath unit both convolutions have         *)
(* `filters` filters.                                                      *)

C6_AddOperands ==
  /\ G.err # "Add"
  /\ \A j \in 1..Len(Layers) :
       Layers[j].kind = "Add"
       => SameShape(Layers[Layers[j].inputs[1]], Layers[Layers[j].inputs[2]])
  /\ \A k \in 1..Len(G.calls) :
       LET c == G.calls[k]
       IN /\ c.fn = "MultiResBlock"
             => /\ Layers[c.first].filters = Layers[c.first + 11].c
                /\ Layers[c.first + 11].kind = "Concatenate"
                /\ Layers[c.first].filters =
                     Layers[c.first + 2].filters + Layers[c.first + 5].filters
                       + Layers[c.first + 8].filters
                /\ Layers[c.first + 13].kind = "Add"
                /\ Layers[c.first + 13].inputs = <<c.first + 1, c.first + 12>>
          /\ c.fn = "ResPath"
             => \A j \in c.first..c.last :
                  Layers[j].kind = "Add"
                  => /\ Layers[Layers[j].inputs[1]].c = c.p
                     /\ Layers[Layers[j].inputs[2]].c = c.p

C6_Witness ==
  /\ prog = "MultiResBlock"
  /\ status = "returned"
  /\ args.alpha # DefaultAlpha
  /\ Layers[15].kind = "Add"
  /\ Layers[15].c = Layers[2].filters

(* C7: in the graph of MultiResUnet each ResPath output is consumed by     *)
(* exactly one layer, the decoder Concatenate of its level (level 4 with   *)
(* up_6, 3 with up_7, 2 with up_8, 1 with up_9), and each pooling takes    *)
(* the output of the MultiResBlock of its level, not of the ResPath, to    *)
(* which the same local variable is bound afterwards.                      *)

C7_SkipLocal(k) ==
  CASE k = 1 -> "mresblock_1" [] k = 2 -> "mresblock_2"
    [] k = 3 -> "mresblock_3" [] k = 4 -> "mresblock_4"

C7_SkipWiring ==
  UnetBuilt
  => /\ Len(CallsOf("ResPath")) = 4
     /\ \A k \in 1..4 :
          LET path == CallsOf("ResPath")[k]
              block == CallsOf("MultiResBlock")[k]
              pool == OfKind("MaxPooling2D")[k]
              up == OfKind("Conv2DTranspose")[5 - k]
              cat == DecoderConcats[5 - k]
          IN /\ Consumers(path.out) = {cat}
             /\ Layers[cat].inputs = <<up, path.out>>
             /\ Layers[up].h = Layers[path.out].h
             /\ Layers[up].w = Layers[path.out].w
             /\ Layers[pool].inputs = <<block.out>>
             /\ block.out # path.out
             /\ path.input = block.out
             /\ env[C7_SkipLocal(k)] = path.out

C7_Witness ==
  /\ UnetBuilt
  /\ Consumers(CallsOf("ResPath")[1].out) = {DecoderConcats[4]}
  /\ Layers[OfKind("MaxPooling2D")[1]].inputs = <<17>>

(* C8: conv2d applies a Conv2D without bias and then a BatchNormalization  *)
(* without scale, and appends an Activation after it exactly when the      *)
(* activation argument is not None: 2 layers for None, 3 otherwise.        *)

C8_Conv2dLayers ==
  (prog = "conv2d" /\ status = "returned")
  => /\ Layers[2].kind = "Conv2D"
     /\ Layers[2].inputs = <<1>>
     /\ ~ Layers[2].use_bias
     /\ Layers[3].kind = "BatchNormalization"
     /\ Layers[3].inputs = <<2>>
     /\ ~ Layers[3].scale
     /\ IF args.activation = None
        THEN Len(Layers) = 3 /\ result.outputs = <<3>>
        ELSE /\ Len(Layers) = 4
             /\ Layers[4].kind = "Activation"
             /\ Layers[4].activation = args.activation[1]
             /\ Layers[4].inputs = <<3>>
             /\ result.outputs = <<4>>

C8_Witness ==
  /\ prog = "conv2d"
  /\ status = "returned"
  /\ args.activation = None
  /\ Len(Layers) = 3

(* C9: at encoder level i = 1..4 the ResPath has the filters of the        *)
(* level's MultiResBlock (32, 64, 128, 256) and 4, 3, 2, 1 units; the      *)
(* transposed convolution of the matching decoder level has the same       *)
(* filter count, so the decoder Concatenate has twice as many channels     *)
(* (512, 256, 128, 64 for up_6 .. up_9).                                   *)

C9_LevelFilters(i) ==
  CASE i = 1 -> 32 [] i = 2 -> 64 [] i = 3 -> 128 [] i = 4 -> 256

C9_SkipFilters ==
  UnetBuilt
  => \A i \in 1..4 :
       LET path == CallsOf("ResPath")[i]
           block == CallsOf("MultiResBlock")[i]
           up == OfKind("Conv2DTranspose")[5 - i]
           cat == DecoderConcats[5 - i]
       IN /\ path.p = C9_LevelFilters(i)
          /\ path.p = block.p
          /\ path.last - path.first + 1 = 8 * (5 - i)
          /\ Len(SelectSeq(OfKind("Add"),
                           LAMBDA j : path.first <= j /\ j <= path.last))
               = 5 - i
          /\ Layers[path.out].c = path.p
          /\ Layers[up].filters = path.p
          /\ Layers[cat].inputs = <<up, path.out>>
          /\ Layers[cat].c = 2 * path.p

C9_Witness ==
  /\ UnetBuilt
  /\ Layers[DecoderConcats[1]].c = 512
  /\ Layers[DecoderConcats[4]].c = 64

(* C10: for every length <= 0, ResPath raises nothing and builds exactly   *)
(* one residual unit, the graph it builds for length 1 and for length      *)
(* None.                                                                   *)

C10_ResPathNonPositive ==
  (prog = "ResPath" /\ Finished /\ args.length # None
     /\ args.length[1] <= 0)
  => /\ status = "returned"
     /\ Len(Layers) = 9
     /\ IsResUnit(1, 1, args.filters)
     /\ result.outputs = <<9>>
     /\ G = ResPath(Input(EmptyGraph, args.input_size), args.filters, 1,
                    Some(1))
     /\ G = ResPath(Input(EmptyGraph, args.input_size), args.filters, 1,
                    None)

C10_Witness ==
  /\ prog = "ResPath"
  /\ status = "returned"
  /\ args.length = Some(-2)
  /\ Len(Layers) = 9

====
